---------------------------- MODULE Spec2Model ----------------------------
(***************************************************************************)
(* Appointment scheduling and availability-to-slot derivation of MoralAi.  *)
(* The store (SQLite tables users, appointments, notifications,            *)
(* counselor_availability), the db functions over it and the Express       *)
(* handlers for /api/appointments, /api/availability, /api/slots and       *)
(* /api/slots/dates.                                                       *)
(*                                                                         *)
(* Handlers run to completion (better-sqlite3 is synchronous, Node runs    *)
(* one handler at a time), so every handler is one atomic action.  Each    *)
(* handler is written as an operator from (store, request) to              *)
(* (response code, store), and the actions apply these operators.          *)
(***************************************************************************)
EXTENDS Integers, Sequences, FiniteSets, TLC

VARIABLES
    appts,      \* table appointments: id -> row (ids of deleted rows are absent)
    nextId,     \* next AUTOINCREMENT id of appointments
    notifs,     \* table notifications, in insertion order
    avail,      \* table counselor_availability: user_id -> rows in insertion order
    selected,   \* per browser client: selectedSlot of RequestAppointmentModal
    slotsOut,   \* body of the last GET /api/slots response
    listOut,    \* body of the last GET /api/appointments response
    appointments, \* per counselor: the appointments state of CounselorDashboard
    datesOut,   \* body of the last GET /api/slots/dates response
    availOut,   \* body of the last GET /api/availability response
    posted,     \* request body of the last request if it was a POST /api/appointments
    resp        \* the last response: which route answered, with which status code

vars == <<appts, nextId, notifs, avail, selected, slotsOut, listOut, appointments, datesOut,
          availOut, posted, resp>>

(***************************************************************************)
(* Bounds of the model.                                                    *)
(***************************************************************************)
MaxAppts == 1       \* appointments ever created in Spec
MaxBooked == 2      \* appointments ever created in SpecBooking
MaxNotifs == 2      \* rows of notifications in Spec
MaxRows == 2        \* appointment rows drawn by SpecSlots

(***************************************************************************)
(* JS / SQL values.  Ids are positive; 0 stands for null and -1 for        *)
(* undefined (a field missing from a request body).                        *)
(***************************************************************************)
Null == 0
Undef == -1
NullText == "<null>"
UndefText == "<undefined>"

(***************************************************************************)
(* Table users.  1 is the seeded admin, 2 the seeded counselor, 3 a doctor *)
(* created by the admin, 4 and 5 registered students.                      *)
(***************************************************************************)
Users ==
    (1 :> [role |-> "admin", provider_type |-> NullText, username |-> "admin"]) @@
    (2 :> [role |-> "counselor", provider_type |-> NullText, username |-> "counselor"]) @@
    (3 :> [role |-> "counselor", provider_type |-> "doctor", username |-> "doc"]) @@
    (4 :> [role |-> "student", provider_type |-> NullText, username |-> "sam"]) @@
    (5 :> [role |-> "student", provider_type |-> NullText, username |-> "tia"])

UserIds == DOMAIN Users

\* role of the token's user (requireAuth attaches the verified payload)
RoleOf(u) == Users[u].role

\* listCounselors().map(c => c.id)
listCounselors == {u \in UserIds : Users[u].role = "counselor"}

\* listStudentsWithLatestAssessment().map(s => s.id)
listStudents == {u \in UserIds : Users[u].role = "student"}

(***************************************************************************)
(* Times.  "HH:MM" is [h, m]; a date of the modelled month 2025-01 is its  *)
(* day number; an ISO local date-time "YYYY-MM-DDTHH:MM:SS" is             *)
(* [date, time, sec].                                                      *)
(***************************************************************************)
SLOT_MINUTES == 30

HM(h, m) == [h |-> h, m |-> m]

At(d, t, s) == [date |-> d, time |-> t, sec |-> s]

timeToMinutes(t) == t.h * 60 + t.m

minutesToTime(min) == [h |-> min \div 60, m |-> min % 60]

\* new Date(date + 'T12:00:00').getDay(); 2025-01-01 is a Wednesday (3)
getDay(date) == (date + 2) % 7

\* SQLite's comparison of two TEXT values of this fixed-width format
TextLE(a, b) ==
    \/ a.date < b.date
    \/ /\ a.date = b.date
       /\ \/ a.time.h < b.time.h
          \/ /\ a.time.h = b.time.h
             /\ \/ a.time.m < b.time.m
                \/ /\ a.time.m = b.time.m
                   /\ a.sec <= b.sec

\* mutant: the key keeps the seconds
Slice19(a) == a

\* s.slice(0, 16): the text up to the minutes
Slice16(a) == [date |-> a.date, time |-> a.time]

RECURSIVE slotTimesFrom(_, _)
slotTimesFrom(m, endMin) ==
    IF m + SLOT_MINUTES <= endMin
    THEN <<minutesToTime(m)>> \o slotTimesFrom(m + SLOT_MINUTES, endMin)
    ELSE <<>>

\* mutant: a slot only has to start before the window ends
RECURSIVE slotTimesFromOpen(_, _)
slotTimesFromOpen(m, endMin) ==
    IF m < endMin
    THEN <<minutesToTime(m)>> \o slotTimesFromOpen(m + SLOT_MINUTES, endMin)
    ELSE <<>>

slotTimesBetweenOpen(startTime, endTime) ==
    slotTimesFromOpen(timeToMinutes(startTime), timeToMinutes(endTime))

slotTimesBetween(startTime, endTime) ==
    slotTimesFrom(timeToMinutes(startTime), timeToMinutes(endTime))

(***************************************************************************)
(* The store handed to the db functions.                                   *)
(***************************************************************************)
DB == [appts |-> appts, nextId |-> nextId, notifs |-> notifs, avail |-> avail]

\* the counselors in the order the users table yields them (by rowid)
RECURSIVE AscendingSeq(_)
AscendingSeq(S) ==
    IF S = {} THEN <<>>
    ELSE LET x == CHOOSE y \in S : \A z \in S : y <= z
         IN  <<x>> \o AscendingSeq(S \ {x})

\* COALESCE(provider_type, 'counselor')
ProviderTypeOf(u) ==
    IF Users[u].provider_type = NullText THEN "counselor" ELSE Users[u].provider_type

\* mutant: counseling does not exclude the doctors
SlotCounselorsDoctorOnly(counselorId, type) ==
    LET counselors ==
            IF counselorId # Undef /\ counselorId # 0
            THEN {u \in UserIds : u = counselorId /\ Users[u].role = "counselor"}
            ELSE {u \in UserIds : Users[u].role = "counselor"}
    IN  AscendingSeq({c \in counselors : type = "doctor" => ProviderTypeOf(c) = "doctor"})

\* the provider filter of getAvailableSlots: one counselor or all, then by type
SlotCounselors(counselorId, type) ==
    LET counselors ==
            IF counselorId # Undef /\ counselorId # 0
            THEN {u \in UserIds : u = counselorId /\ Users[u].role = "counselor"}
            ELSE {u \in UserIds : Users[u].role = "counselor"}
        filtered ==
            IF type # UndefText
            THEN {c \in counselors :
                    IF type = "doctor" THEN ProviderTypeOf(c) = "doctor"
                    ELSE IF type = "counseling" THEN ProviderTypeOf(c) # "doctor"
                    ELSE TRUE}
            ELSE counselors
    IN  AscendingSeq(filtered)

\* mutant: the query forgets AND status = 'scheduled'
BookedStartsAnyStatus(db, counselor, date) ==
    LET dateStart == At(date, HM(0, 0), 0)
        dateEnd == At(date, HM(23, 59), 59)
    IN  {Slice16(db.appts[id].scheduled_at) : id \in
            {i \in DOMAIN db.appts :
                /\ db.appts[i].assigned_to = counselor
                /\ TextLE(dateStart, db.appts[i].scheduled_at)
                /\ TextLE(db.appts[i].scheduled_at, dateEnd)}}

\* SELECT scheduled_at ... WHERE assigned_to = ? AND status = 'scheduled'
\*   AND scheduled_at >= dateStart AND scheduled_at <= dateEnd, sliced to minutes
BookedStarts(db, counselor, date) ==
    LET dateStart == At(date, HM(0, 0), 0)
        dateEnd == At(date, HM(23, 59), 59)
    IN  {Slice16(db.appts[id].scheduled_at) : id \in
            {i \in DOMAIN db.appts :
                /\ db.appts[i].assigned_to = counselor
                /\ db.appts[i].status = "scheduled"
                /\ TextLE(dateStart, db.appts[i].scheduled_at)
                /\ TextLE(db.appts[i].scheduled_at, dateEnd)}}

\* the inner loops of getAvailableSlots for one availability row
SlotsOfRow(bookedStarts, date, counselor, row) ==
    LET times == slotTimesBetween(row.start_time, row.end_time)
        all == [i \in 1..Len(times) |->
                  [start |-> At(date, times[i], 0),
                   end |-> At(date, minutesToTime(timeToMinutes(times[i]) + SLOT_MINUTES), 0),
                   counselor_id |-> counselor,
                   counselor_username |-> Users[counselor].username]]
    IN  SelectSeq(all, LAMBDA s : Slice16(s.start) \notin bookedStarts)

RECURSIVE SlotsOfRows(_, _, _, _)
SlotsOfRows(bookedStarts, date, counselor, rows) ==
    IF rows = <<>> THEN <<>>
    ELSE SlotsOfRow(bookedStarts, date, counselor, Head(rows))
            \o SlotsOfRows(bookedStarts, date, counselor, Tail(rows))

\* one iteration of "for (const counselor of filtered)"
SlotsOfCounselor(db, date, counselor) ==
    LET dayOfWeek == getDay(date)
        rows == SelectSeq(db.avail[counselor], LAMBDA w : w.day_of_week = dayOfWeek)
    IN  SlotsOfRows(BookedStarts(db, counselor, date), date, counselor, rows)

RECURSIVE SlotsOfCounselors(_, _, _)
SlotsOfCounselors(db, date, cs) ==
    IF cs = <<>> THEN <<>>
    ELSE SlotsOfCounselor(db, date, Head(cs)) \o SlotsOfCounselors(db, date, Tail(cs))

\* mutant: a slot is placed before the slots of equal start
RECURSIVE InsertByStartBeforeEqual(_, _)
InsertByStartBeforeEqual(sorted, x) ==
    IF sorted = <<>> THEN <<x>>
    ELSE LET l == sorted[Len(sorted)]
         IN  IF TextLE(l.start, x.start) /\ l.start # x.start THEN Append(sorted, x)
             ELSE Append(InsertByStartBeforeEqual(SubSeq(sorted, 1, Len(sorted) - 1), x), l)

\* allSlots.sort((a, b) => a.start.localeCompare(b.start)), a stable sort
RECURSIVE InsertByStart(_, _)
InsertByStart(sorted, x) ==
    IF sorted = <<>> THEN <<x>>
    ELSE LET l == sorted[Len(sorted)]
         IN  IF TextLE(l.start, x.start) THEN Append(sorted, x)
             ELSE Append(InsertByStart(SubSeq(sorted, 1, Len(sorted) - 1), x), l)

RECURSIVE SortByStart(_)
SortByStart(s) ==
    IF s = <<>> THEN <<>>
    ELSE InsertByStart(SortByStart(SubSeq(s, 1, Len(s) - 1)), s[Len(s)])

getAvailableSlots(db, date, counselorId, type) ==
    SortByStart(SlotsOfCounselors(db, date, SlotCounselors(counselorId, type)))

\* new Date(y, m, 0).getDate() of the modelled month, January 2025
lastDay == 31

\* mutant: the loop asks for the slots of all counselors
DatesFromAllCounselors(db, d, counselorId, type) ==
    SelectSeq([i \in 1..(lastDay - d + 1) |-> d + i - 1],
              LAMBDA x : getAvailableSlots(db, x, Undef, type) # <<>>)

\* for (let d = ...; d <= lastDay; d++) if (getAvailableSlots(...).length > 0) dates.push(...)
RECURSIVE DatesFrom(_, _, _, _)
DatesFrom(db, d, counselorId, type) ==
    IF d > lastDay THEN <<>>
    ELSE (IF getAvailableSlots(db, d, counselorId, type) # <<>> THEN <<d>> ELSE <<>>)
            \o DatesFrom(db, d + 1, counselorId, type)

\* month is the month number m of "2025-m"
getDatesWithSlots(db, month, counselorId, type) ==
    IF month = 0 \/ month < 1 \/ month > 12 THEN <<>>
    ELSE DatesFrom(db, 1, counselorId, type)

(***************************************************************************)
(* db functions on appointments and notifications.                         *)
(***************************************************************************)
\* the FOREIGN KEY of a column that REFERENCES users(id); NULL passes
RefersToUser(v) == v = Null \/ v \in UserIds

\* opts.x ?? null
OrNullText(v) == IF v = UndefText THEN NullText ELSE v

createAppointment(db, studentId, scheduledAt, adminUserId, opts) ==
    LET id == db.nextId
        row == [id |-> id,
                student_id |-> studentId,
                assigned_to |-> IF opts.assignedTo = Undef THEN Null ELSE opts.assignedTo,
                scheduled_at |-> scheduledAt,
                type |-> IF opts.type = UndefText THEN "counseling" ELSE opts.type,
                status |-> "scheduled",
                location |-> OrNullText(opts.location),
                provider_or_notes |-> OrNullText(opts.providerOrNotes),
                admin_notes |-> OrNullText(opts.adminNotes),
                counselor_report |-> NullText,
                created_by |-> adminUserId]
    IN  [db EXCEPT !.appts = (id :> row) @@ db.appts, !.nextId = id + 1]

getAppointmentById(db, id) == db.appts[id]

\* mutant: a missing counselor_report is written as null
UpdatedRowReportReset(existing, updates) ==
    [existing EXCEPT
        !.scheduled_at = IF updates.scheduled_at # <<>> THEN updates.scheduled_at[1] ELSE @,
        !.status = IF updates.status # UndefText THEN updates.status ELSE @,
        !.location = IF updates.location # UndefText THEN updates.location ELSE @,
        !.provider_or_notes = IF updates.provider_or_notes # UndefText
                              THEN updates.provider_or_notes ELSE @,
        !.admin_notes = IF updates.admin_notes # UndefText THEN updates.admin_notes ELSE @,
        !.assigned_to = IF updates.assigned_to # Undef THEN updates.assigned_to ELSE @,
        !.counselor_report = IF updates.counselor_report # UndefText
                             THEN updates.counselor_report ELSE NullText]

\* the row updateAppointment writes for the given updates
UpdatedRow(existing, updates) ==
    [existing EXCEPT
        !.scheduled_at = IF updates.scheduled_at # <<>> THEN updates.scheduled_at[1] ELSE @,
        !.status = IF updates.status # UndefText THEN updates.status ELSE @,
        !.location = IF updates.location # UndefText THEN updates.location ELSE @,
        !.provider_or_notes = IF updates.provider_or_notes # UndefText
                              THEN updates.provider_or_notes ELSE @,
        !.admin_notes = IF updates.admin_notes # UndefText THEN updates.admin_notes ELSE @,
        !.assigned_to = IF updates.assigned_to # Undef THEN updates.assigned_to ELSE @,
        !.counselor_report = IF updates.counselor_report # UndefText
                             THEN updates.counselor_report ELSE @]

\* [ok |-> FALSE] stands for the SqliteError the UPDATE throws on a broken reference
updateAppointment(db, id, updates) ==
    LET row == UpdatedRow(db.appts[id], updates)
    IN  IF RefersToUser(row.assigned_to)
        THEN [ok |-> TRUE, db |-> [db EXCEPT !.appts[id] = row]]
        ELSE [ok |-> FALSE, db |-> db]

\* mutant: the row is kept and marked cancelled
deleteAppointmentSoft(db, id) ==
    [db EXCEPT !.appts[id].status = "cancelled"]

\* DELETE FROM appointments WHERE id = ?
deleteAppointment(db, id) ==
    [db EXCEPT !.appts = [i \in DOMAIN db.appts \ {id} |-> db.appts[i]]]

\* the filters object of a listAppointments call; an absent filter is Undef
NoFilters ==
    [studentId |-> Undef, assignedTo |-> Undef, assignedToMeOrUnassigned |-> Undef,
     status |-> UndefText, fromDate |-> <<>>, toDate |-> <<>>, limit |-> Undef]

\* ORDER BY a.scheduled_at ASC: rows of equal scheduled_at stay in rowid order
RECURSIVE InsertByScheduledAt(_, _)
InsertByScheduledAt(sorted, x) ==
    IF sorted = <<>> THEN <<x>>
    ELSE LET l == sorted[Len(sorted)]
         IN  IF TextLE(l.scheduled_at, x.scheduled_at) THEN Append(sorted, x)
             ELSE Append(InsertByScheduledAt(SubSeq(sorted, 1, Len(sorted) - 1), x), l)

RECURSIVE SortByScheduledAt(_)
SortByScheduledAt(s) ==
    IF s = <<>> THEN <<>>
    ELSE InsertByScheduledAt(SortByScheduledAt(SubSeq(s, 1, Len(s) - 1)), s[Len(s)])

\* mutant: the WHERE clause loses the assigned_to = ? OR assigned_to IS NULL term
listAppointmentsOpen(db, filters) ==
    LET matches(a) ==
            /\ filters.studentId # Undef => a.student_id = filters.studentId
            /\ filters.assignedTo # Undef => a.assigned_to = filters.assignedTo
            /\ filters.status # UndefText => a.status = filters.status
            /\ filters.fromDate # <<>> => TextLE(filters.fromDate[1], a.scheduled_at)
            /\ filters.toDate # <<>> => TextLE(a.scheduled_at, filters.toDate[1])
        ids == AscendingSeq({i \in DOMAIN db.appts : matches(db.appts[i])})
        rows == SortByScheduledAt([k \in 1..Len(ids) |-> db.appts[ids[k]]])
        limit == IF filters.limit = Undef THEN 200 ELSE filters.limit
    IN  SubSeq(rows, 1, IF Len(rows) < limit THEN Len(rows) ELSE limit)

listAppointments(db, filters) ==
    LET matches(a) ==
            /\ filters.studentId # Undef => a.student_id = filters.studentId
            /\ filters.assignedTo # Undef => a.assigned_to = filters.assignedTo
            /\ filters.assignedToMeOrUnassigned # Undef =>
                    (a.assigned_to = filters.assignedToMeOrUnassigned \/ a.assigned_to = Null)
            /\ filters.status # UndefText => a.status = filters.status
            /\ filters.fromDate # <<>> => TextLE(filters.fromDate[1], a.scheduled_at)
            /\ filters.toDate # <<>> => TextLE(a.scheduled_at, filters.toDate[1])
        ids == AscendingSeq({i \in DOMAIN db.appts : matches(db.appts[i])})
        rows == SortByScheduledAt([k \in 1..Len(ids) |-> db.appts[ids[k]]])
        limit == IF filters.limit = Undef THEN 200 ELSE filters.limit
    IN  SubSeq(rows, 1, IF Len(rows) < limit THEN Len(rows) ELSE limit)

\* title and body are kept as the label and the report text they are built from
createNotification(db, userId, type, title, report, relatedType, relatedId) ==
    [db EXCEPT !.notifs = Append(db.notifs,
        [user_id |-> userId, type |-> type, title |-> title, report |-> report,
         related_type |-> relatedType, related_id |-> relatedId])]

(***************************************************************************)
(* Express handlers.  Each yields [code, db]: the HTTP status and the      *)
(* store after the request.                                                *)
(***************************************************************************)
Reply(code, db) == [code |-> code, db |-> db]

\* !Number.isNaN(new Date(scheduledAt).getTime()) for a text of the modelled format
IsValidDate(at) ==
    /\ at.date \in 1..31
    /\ at.time.h \in 0..23
    /\ at.time.m \in 0..59
    /\ at.sec \in 0..59

AppointmentTypes == {"counseling", "doctor", "follow_up"}

AppointmentStatuses == {"scheduled", "completed", "cancelled", "no_show"}

TypeLabel(type) ==
    IF type = "doctor" THEN "Doctor"
    ELSE IF type = "follow_up" THEN "Follow-up" ELSE "Counseling"

\* mutant: the insert is refused when the provider already has a scheduled
\* appointment on that minute
PostPersistExclusive(db, user, studentId, body, assignedTo) ==
    IF \E id \in DOMAIN db.appts :
            /\ db.appts[id].status = "scheduled"
            /\ db.appts[id].assigned_to = assignedTo
            /\ Slice16(db.appts[id].scheduled_at) = Slice16(body.scheduledAt[1])
    THEN Reply(409, db)
    ELSE
      LET created == createAppointment(db, studentId, body.scheduledAt[1], user,
              [type |-> IF body.type \in AppointmentTypes THEN body.type ELSE UndefText,
               location |-> body.location,
               providerOrNotes |-> body.providerOrNotes,
               adminNotes |-> body.adminNotes,
               assignedTo |-> assignedTo])
          appointment == created.appts[db.nextId]
      IN  Reply(201, createNotification(created, studentId, "appointment_booked",
                  TypeLabel(appointment.type), NullText, "appointment", appointment.id))

\* mutant: the notification goes to the caller instead of the student
PostPersistNotifyCaller(db, user, studentId, body, assignedTo) ==
    LET created == createAppointment(db, studentId, body.scheduledAt[1], user,
            [type |-> IF body.type \in AppointmentTypes THEN body.type ELSE UndefText,
             location |-> body.location,
             providerOrNotes |-> body.providerOrNotes,
             adminNotes |-> body.adminNotes,
             assignedTo |-> assignedTo])
        appointment == created.appts[db.nextId]
    IN  Reply(201, createNotification(created, user, "appointment_booked",
                TypeLabel(appointment.type), NullText, "appointment", appointment.id))

\* the try block of app.post('/api/appointments'): insert, notify, 201
PostPersist(db, user, studentId, body, assignedTo) ==
    LET created == createAppointment(db, studentId, body.scheduledAt[1], user,
            [type |-> IF body.type \in AppointmentTypes THEN body.type ELSE UndefText,
             location |-> body.location,
             providerOrNotes |-> body.providerOrNotes,
             adminNotes |-> body.adminNotes,
             assignedTo |-> assignedTo])
        appointment == created.appts[db.nextId]
    IN  Reply(201, createNotification(created, studentId, "appointment_booked",
                TypeLabel(appointment.type), NullText, "appointment", appointment.id))

\* mutant: a studentId in the body wins over the caller's id
RequestStudentFromBody(user, body) ==
    IF body.studentId # Undef THEN body.studentId ELSE user

\* studentId: the caller for a student, body.studentId for a counselor
RequestStudent(user, body) ==
    IF RoleOf(user) = "student" THEN user ELSE body.studentId

\* mutant: any user's id is accepted as the assignee
RequestAssigneeAnyUser(rawAssignedTo) ==
    IF rawAssignedTo # Undef /\ rawAssignedTo # Null /\ rawAssignedTo \in UserIds
    THEN rawAssignedTo ELSE Undef

\* assignedTo: body.assignedTo when it is in listCounselors(), else undefined
RequestAssignee(rawAssignedTo) ==
    IF rawAssignedTo # Undef /\ rawAssignedTo # Null /\ rawAssignedTo \in listCounselors
    THEN rawAssignedTo ELSE Undef

\* app.post('/api/appointments')
PostAppointments(db, user, body) ==
    IF RoleOf(user) = "admin" THEN Reply(403, db)
    ELSE IF RoleOf(user) \notin {"student", "counselor"} THEN Reply(403, db)
    ELSE IF RoleOf(user) = "counselor" /\ body.studentId = Undef THEN Reply(400, db)
    ELSE
      LET studentId == RequestStudent(user, body)
          assignedTo == RequestAssignee(body.assignedTo)
      IN  IF body.scheduledAt = <<>> THEN Reply(400, db)
          ELSE IF ~IsValidDate(body.scheduledAt[1]) THEN Reply(400, db)
          ELSE IF studentId \notin listStudents THEN Reply(404, db)
          ELSE PostPersist(db, user, studentId, body, assignedTo)

\* updated.counselor_report ? `Report: ...` : '' (null and '' are falsy)
ReportSnippet(report) == IF report = "" THEN NullText ELSE report

\* mutant: a counselor may edit any appointment
NotMineAny(existing, user) == FALSE

\* !isAssignedToMe && !isUnassigned
NotMine(existing, user) ==
    LET isAssignedToMe == existing.assigned_to = user
        isUnassigned == existing.assigned_to = Null
    IN  ~isAssignedToMe /\ ~isUnassigned

\* mutant: only completed is announced
IsOutcomeCompletedOnly(newStatus) == newStatus = "completed"

\* newStatus && (newStatus === 'completed' || newStatus === 'no_show')
IsOutcome(newStatus) == newStatus \in {"completed", "no_show"}

\* the counselor branch of app.patch('/api/appointments/:id')
PatchByCounselor(db, user, id, body) ==
    LET existing == getAppointmentById(db, id)
        newStatus == IF body.status \in AppointmentStatuses THEN body.status ELSE UndefText
        reportText == IF body.counselor_report \notin {UndefText, NullText}
                      THEN body.counselor_report ELSE UndefText
        updated == updateAppointment(db, id,
                    [status |-> newStatus,
                     counselor_report |-> reportText,
                     scheduled_at |-> body.scheduled_at,
                     assigned_to |-> body.assigned_to,
                     location |-> UndefText,
                     provider_or_notes |-> UndefText,
                     admin_notes |-> UndefText])
    IN  IF NotMine(existing, user) THEN Reply(403, db)
        ELSE IF ~updated.ok THEN Reply(500, db)
        ELSE IF IsOutcome(newStatus)
        THEN Reply(200, createNotification(updated.db, existing.student_id,
                    "appointment_outcome",
                    IF newStatus = "completed" THEN "Completed" ELSE "Missed (no-show)",
                    ReportSnippet(updated.db.appts[id].counselor_report), "appointment", id))
        ELSE Reply(200, updated.db)

\* mutant: a cancel is never refused for the current status
CancelRefusedNever(existing, newStatus) == FALSE

\* newStatus && existing.status !== 'scheduled'
CancelRefused(existing, newStatus) ==
    newStatus # UndefText /\ existing.status # "scheduled"

\* the student branch of app.patch('/api/appointments/:id')
PatchByStudent(db, user, id, body) ==
    LET existing == getAppointmentById(db, id)
        newStatus == IF body.status = "cancelled" THEN "cancelled" ELSE UndefText
        updated == updateAppointment(db, id,
                    [status |-> newStatus,
                     counselor_report |-> UndefText,
                     scheduled_at |-> body.scheduled_at,
                     assigned_to |-> Undef,
                     location |-> UndefText,
                     provider_or_notes |-> UndefText,
                     admin_notes |-> UndefText])
    IN  IF existing.student_id # user THEN Reply(403, db)
        ELSE IF CancelRefused(existing, newStatus) THEN Reply(400, db)
        ELSE Reply(200, updated.db)

\* mutant: the appointment is looked up before the caller's role is tested
PatchAppointmentLookupFirst(db, user, id, body) ==
    IF id \notin DOMAIN db.appts THEN Reply(404, db)
    ELSE IF RoleOf(user) = "admin" THEN Reply(403, db)
    ELSE IF RoleOf(user) = "counselor" THEN PatchByCounselor(db, user, id, body)
    ELSE IF RoleOf(user) = "student" THEN PatchByStudent(db, user, id, body)
    ELSE Reply(403, db)

\* app.patch('/api/appointments/:id')
PatchAppointment(db, user, id, body) ==
    IF RoleOf(user) = "admin" THEN Reply(403, db)
    ELSE IF id \notin DOMAIN db.appts THEN Reply(404, db)
    ELSE IF RoleOf(user) = "counselor" THEN PatchByCounselor(db, user, id, body)
    ELSE IF RoleOf(user) = "student" THEN PatchByStudent(db, user, id, body)
    ELSE Reply(403, db)

\* app.delete('/api/appointments/:id')
DeleteAppointmentRoute(db, user, id) ==
    IF RoleOf(user) = "admin" THEN Reply(403, db)
    ELSE IF id \notin DOMAIN db.appts THEN Reply(404, db)
    ELSE IF RoleOf(user) = "counselor" /\ getAppointmentById(db, id).assigned_to # user
    THEN Reply(403, db)
    ELSE Reply(204, deleteAppointment(db, id))

\* the query string of GET /api/appointments
ListQuery(studentId, status, from, to) ==
    [studentId |-> studentId, status |-> status, from |-> from, to |-> to]

\* app.get('/api/appointments'): [code, body]
GetAppointments(db, user, query) ==
    IF RoleOf(user) = "admin" THEN [code |-> 403, body |-> <<>>]
    ELSE
      LET filters ==
            IF RoleOf(user) = "counselor"
            THEN [NoFilters EXCEPT
                    !.limit = 200,
                    !.assignedToMeOrUnassigned = user,
                    !.status = IF query.status \in AppointmentStatuses
                               THEN query.status ELSE UndefText]
            ELSE [NoFilters EXCEPT !.limit = 200, !.studentId = user]
      IN  [code |-> 200, body |-> listAppointments(db, filters)]

\* app.get('/api/slots'), after the date check
GetSlots(db, date, counselorId, type) ==
    getAvailableSlots(db, date, counselorId,
        IF type \in AppointmentTypes THEN type ELSE UndefText)

\* app.get('/api/slots/dates'), after the month check
GetSlotDates(db, month, counselorId, type) ==
    getDatesWithSlots(db, month, counselorId,
        IF type \in AppointmentTypes THEN type ELSE UndefText)

(***************************************************************************)
(* Availability.                                                           *)
(***************************************************************************)
\* "" as a start_time or end_time
EmptyTime == [h |-> -1, m |-> -1]

Window(d, st, en) == [day_of_week |-> d, start_time |-> st, end_time |-> en]

\* a start_time or end_time that is not a string (null, a number, missing)
NotText == [h |-> -2, m |-> -2]

\* ORDER BY day_of_week, start_time
WindowLE(a, b) ==
    \/ a.day_of_week < b.day_of_week
    \/ /\ a.day_of_week = b.day_of_week
       /\ timeToMinutes(a.start_time) <= timeToMinutes(b.start_time)

RECURSIVE InsertByWindow(_, _)
InsertByWindow(sorted, x) ==
    IF sorted = <<>> THEN <<x>>
    ELSE LET l == sorted[Len(sorted)]
         IN  IF WindowLE(l, x) THEN Append(sorted, x)
             ELSE Append(InsertByWindow(SubSeq(sorted, 1, Len(sorted) - 1), x), l)

RECURSIVE SortByWindow(_)
SortByWindow(s) ==
    IF s = <<>> THEN <<>>
    ELSE InsertByWindow(SortByWindow(SubSeq(s, 1, Len(s) - 1)), s[Len(s)])

\* SELECT ... FROM counselor_availability WHERE user_id = ? ORDER BY day_of_week, start_time
getCounselorAvailability(db, counselorId) == SortByWindow(db.avail[counselorId])

\* the check before each INSERT
InsertsWindow(w) ==
    /\ w.day_of_week >= 0
    /\ w.day_of_week <= 6
    /\ w.start_time # EmptyTime
    /\ w.end_time # EmptyTime

\* mutant: the windows are inserted without the check
setCounselorAvailabilityUnchecked(db, counselorId, windows) ==
    [db EXCEPT !.avail[counselorId] = windows]

\* mutant: the old rows are not deleted
setCounselorAvailabilityAppend(db, counselorId, windows) ==
    [db EXCEPT !.avail[counselorId] = @ \o SelectSeq(windows, InsertsWindow)]

\* mutant: the DELETE has no WHERE user_id = ?
setCounselorAvailabilityDeleteAll(db, counselorId, windows) ==
    [db EXCEPT !.avail = [u \in DOMAIN db.avail |->
        IF u = counselorId THEN SelectSeq(windows, InsertsWindow) ELSE <<>>]]

\* DELETE the counselor's rows, then INSERT each window that passes the check
setCounselorAvailability(db, counselorId, windows) ==
    [db EXCEPT !.avail[counselorId] = SelectSeq(windows, InsertsWindow)]

\* app.get('/api/availability'): [code, body]
GetAvailability(db, user) ==
    IF RoleOf(user) # "counselor" THEN [code |-> 403, body |-> <<>>]
    ELSE [code |-> 200, body |-> getCounselorAvailability(db, user)]

\* the filter on the types of a window's fields
WellTyped(w) ==
    /\ w.day_of_week # Undef
    /\ w.start_time # NotText
    /\ w.end_time # NotText

\* app.put('/api/availability') with an array body
PutAvailability(db, user, availability) ==
    IF RoleOf(user) # "counselor" THEN Reply(403, db)
    ELSE Reply(200, setCounselorAvailability(db, user, SelectSeq(availability, WellTyped)))

(***************************************************************************)
(* The browser client of RequestAppointmentModal: it shows the slots of a  *)
(* date, the user picks one (selectedSlot), and handleSubmit posts it.     *)
(***************************************************************************)
NoSlot == [start |-> At(0, HM(0, 0), 0), end |-> At(0, HM(0, 0), 0),
           counselor_id |-> Null, counselor_username |-> NullText]

\* the body handleSubmit sends for selectedSlot
SubmitBody(slot) ==
    [studentId |-> Undef,
     scheduledAt |-> <<slot.start>>,
     type |-> "counseling",
     location |-> UndefText,
     providerOrNotes |-> UndefText,
     adminNotes |-> UndefText,
     assignedTo |-> slot.counselor_id]

SeqRange(s) == {s[i] : i \in 1..Len(s)}

\* no request body seen yet
NoBody ==
    [studentId |-> Undef, scheduledAt |-> <<>>, type |-> UndefText, location |-> UndefText,
     providerOrNotes |-> UndefText, adminNotes |-> UndefText, assignedTo |-> Undef]

(***************************************************************************)
(* State machine.                                                          *)
(***************************************************************************)
Respond(op, user, code) == [op |-> op, caller |-> user, code |-> code]

\* the store of a reply becomes the store
Commit(r) ==
    /\ appts' = r.db.appts
    /\ nextId' = r.db.nextId
    /\ notifs' = r.db.notifs
    /\ avail' = r.db.avail

Init ==
    /\ appts = <<>>
    /\ nextId = 1
    /\ notifs = <<>>
    /\ avail = [u \in listCounselors |-> <<>>]
    /\ selected = [c \in listStudents |-> NoSlot]
    /\ slotsOut = <<>>
    /\ listOut = <<>>
    /\ appointments = [c \in listCounselors |-> <<>>]
    /\ datesOut = <<>>
    /\ availOut = <<>>
    /\ posted = NoBody
    /\ resp = Respond("none", Null, 0)

Create(user, body) ==
    LET r == PostAppointments(DB, user, body)
    IN  /\ Commit(r)
        /\ resp' = Respond("post", user, r.code)
        /\ posted' = body
        /\ UNCHANGED <<selected, slotsOut, listOut, appointments, datesOut, availOut>>

Patch(user, id, body) ==
    LET r == PatchAppointment(DB, user, id, body)
    IN  /\ Commit(r)
        /\ resp' = Respond("patch", user, r.code)
        /\ posted' = NoBody
        /\ UNCHANGED <<selected, slotsOut, listOut, appointments, datesOut, availOut>>

Delete(user, id) ==
    LET r == DeleteAppointmentRoute(DB, user, id)
    IN  /\ Commit(r)
        /\ resp' = Respond("delete", user, r.code)
        /\ posted' = NoBody
        /\ UNCHANGED <<selected, slotsOut, listOut, appointments, datesOut, availOut>>

SetAvailability(user, availability) ==
    LET r == PutAvailability(DB, user, availability)
    IN  /\ Commit(r)
        /\ resp' = Respond("put", user, r.code)
        /\ posted' = NoBody
        /\ UNCHANGED <<selected, slotsOut, listOut, appointments, datesOut, availOut>>

List(user, query) ==
    LET r == GetAppointments(DB, user, query)
    IN  /\ listOut' = r.body
        /\ resp' = Respond("list", user, r.code)
        /\ posted' = NoBody
        /\ UNCHANGED <<appts, nextId, notifs, avail, selected, slotsOut, appointments, datesOut,
                     availOut>>

QuerySlots(user, date, counselorId, type) ==
    /\ slotsOut' = GetSlots(DB, date, counselorId, type)
    /\ resp' = Respond("slots", user, 200)
    /\ posted' = NoBody
    /\ UNCHANGED <<appts, nextId, notifs, avail, selected, listOut, appointments, datesOut, availOut>>

QuerySlotDates(user, month, counselorId, type) ==
    /\ datesOut' = GetSlotDates(DB, month, counselorId, type)
    /\ resp' = Respond("dates", user, 200)
    /\ posted' = NoBody
    /\ UNCHANGED <<appts, nextId, notifs, avail, selected, slotsOut, listOut, appointments, availOut>>

QueryAvailability(user) ==
    LET r == GetAvailability(DB, user)
    IN  /\ availOut' = r.body
        /\ resp' = Respond("availability", user, r.code)
        /\ posted' = NoBody
        /\ UNCHANGED <<appts, nextId, notifs, avail, selected, slotsOut, listOut, appointments,
                       datesOut>>

(***************************************************************************)
(* Spec: the appointment lifecycle under every role.                       *)
(***************************************************************************)
T1 == At(6, HM(9, 0), 0)
T2 == At(6, HM(9, 30), 0)

Body(studentId, scheduledAt, assignedTo) ==
    [studentId |-> studentId,
     scheduledAt |-> scheduledAt,
     type |-> UndefText,
     location |-> UndefText,
     providerOrNotes |-> UndefText,
     adminNotes |-> UndefText,
     assignedTo |-> assignedTo]

PatchBody(status, scheduledAt, assignedTo, report) ==
    [status |-> status,
     scheduled_at |-> scheduledAt,
     location |-> UndefText,
     provider_or_notes |-> UndefText,
     admin_notes |-> UndefText,
     assigned_to |-> assignedTo,
     counselor_report |-> report]

\* in Spec student 4 books; the admin and a counselor without studentId are refused
Creators == {1, 2, 4}

CreateBodies ==
    {Body(Undef, at, to) : at \in {<<>>, <<T1>>}, to \in {Undef, 2, 3}}

PatchBodies ==
    {PatchBody(st, <<>>, Undef, UndefText) : st \in AppointmentStatuses}
    \cup {PatchBody(UndefText, <<T2>>, Undef, UndefText),
          PatchBody("cancelled", <<T2>>, Undef, UndefText),
          PatchBody(UndefText, <<>>, Undef, UndefText)}
    \cup {PatchBody(UndefText, <<>>, to, UndefText) : to \in {Null, 2, 3}}

CreateAppointment ==
    /\ nextId <= MaxAppts
    /\ \E user \in Creators, body \in CreateBodies : Create(user, body)

\* a request that would write a notification beyond MaxNotifs is not explored
UpdateAppointment ==
    \E user \in UserIds, id \in 1..MaxAppts, body \in PatchBodies :
        /\ Len(PatchAppointment(DB, user, id, body).db.notifs) <= MaxNotifs
        /\ Patch(user, id, body)

DeleteAppointment ==
    \E user \in UserIds, id \in 1..MaxAppts : Delete(user, id)

Next == CreateAppointment \/ UpdateAppointment \/ DeleteAppointment

Spec == Init /\ [][Next]_vars

(***************************************************************************)
(* SpecBooking: a counselor opens Monday 09:00-10:00, and two students     *)
(* each use RequestAppointmentModal (pick a shown slot, submit it) and     *)
(* StudentAppointmentsScreen (cancel).                                     *)
(***************************************************************************)
Clients == listStudents

BookingDates == {6}

MondayMorning == <<Window(1, HM(9, 0), HM(10, 0))>>

\* CounselorDashboard.handleSaveAvailability
OpenAvailability ==
    /\ avail[2] = <<>>
    /\ SetAvailability(2, MondayMorning)

\* the modal fetches the slots of the chosen date and the user clicks one of them
ChooseSlot ==
    \E c \in Clients :
      \E date \in BookingDates :
        LET slots == GetSlots(DB, date, Undef, "counseling")
        IN  /\ \E i \in 1..Len(slots) : selected' = [selected EXCEPT ![c] = slots[i]]
            /\ slotsOut' = slots
            /\ resp' = Respond("slots", c, 200)
            /\ posted' = NoBody
            /\ UNCHANGED <<appts, nextId, notifs, avail, listOut, appointments, datesOut, availOut>>

\* RequestAppointmentModal.handleSubmit; the modal closes on success
Book(c) ==
    LET r == PostAppointments(DB, c, SubmitBody(selected[c]))
    IN  /\ selected[c] # NoSlot
        /\ Commit(r)
        /\ resp' = Respond("post", c, r.code)
        /\ selected' = IF r.code = 201 THEN [selected EXCEPT ![c] = NoSlot] ELSE selected
        /\ posted' = SubmitBody(selected[c])
        /\ UNCHANGED <<slotsOut, listOut, appointments, datesOut, availOut>>

BookSlot ==
    /\ nextId <= MaxBooked
    /\ \E c \in Clients : Book(c)

\* StudentAppointmentsScreen.handleCancel
CancelBooking ==
    \E c \in Clients, id \in DOMAIN appts :
        /\ appts[id].student_id = c
        /\ appts[id].status = "scheduled"
        /\ Patch(c, id, PatchBody("cancelled", <<>>, Undef, UndefText))

NextBooking == OpenAvailability \/ ChooseSlot \/ BookSlot \/ CancelBooking

SpecBooking == Init /\ [][NextBooking]_vars

(***************************************************************************)
(* SpecSlots: getAvailableSlots as a function of the store.  The store is  *)
(* drawn from availability tables and appointment rows that requests can   *)
(* produce (with the notifications those requests wrote), and GET          *)
(* /api/slots is applied to it.                                            *)
(***************************************************************************)
AvailConfigs ==
    { (2 :> <<Window(1, HM(9, 0), HM(10, 0))>>) @@ (3 :> <<>>),
      (2 :> <<Window(1, HM(9, 0), HM(9, 20))>>) @@ (3 :> <<Window(1, HM(9, 0), HM(10, 0))>>),
      (2 :> <<Window(1, HM(10, 0), HM(9, 0)), Window(2, HM(9, 0), HM(9, 30))>>) @@ (3 :> <<>>),
      (2 :> <<Window(1, HM(9, 15), HM(10, 30))>>) @@ (3 :> <<Window(1, HM(9, 0), HM(9, 30))>>),
      (2 :> <<Window(1, HM(9, 0), HM(10, 0)), Window(1, HM(9, 30), HM(10, 30))>>)
          @@ (3 :> <<Window(2, HM(9, 0), HM(10, 0))>>),
      (2 :> <<Window(1, HM(9, 30), HM(10, 0)), Window(1, HM(9, 0), HM(9, 30))>>)
          @@ (3 :> <<Window(1, HM(9, 0), HM(10, 0))>>) }

RowAssignees == <<Null, 2, 3>>
RowStatuses == <<"scheduled", "completed", "cancelled", "no_show">>
RowTimes == <<At(6, HM(9, 0), 30), At(7, HM(9, 0), 0)>>

RowCount == Len(RowAssignees) * Len(RowStatuses) * Len(RowTimes)

\* the i-th appointment row of the enumeration, stored under id i
SlotRow(i) ==
    LET a == (i - 1) % Len(RowAssignees)
        st == ((i - 1) \div Len(RowAssignees)) % Len(RowStatuses)
        t == (i - 1) \div (Len(RowAssignees) * Len(RowStatuses))
    IN  [id |-> i,
         student_id |-> 4,
         assigned_to |-> RowAssignees[a + 1],
         scheduled_at |-> RowTimes[t + 1],
         type |-> "counseling",
         status |-> RowStatuses[st + 1],
         location |-> NullText,
         provider_or_notes |-> NullText,
         admin_notes |-> NullText,
         counselor_report |-> NullText,
         created_by |-> 4]

\* the sets of at most k row ids
RECURSIVE RowSets(_)
RowSets(k) ==
    IF k = 0 THEN {{}}
    ELSE LET prev == RowSets(k - 1)
         IN  prev \cup {S \cup {i} : S \in prev, i \in 1..RowCount}

\* the notifications written while the rows were created and then finalized
NotifsOfRows(ids) ==
    LET all == AscendingSeq(ids)
        done == SelectSeq(all, LAMBDA i : SlotRow(i).status \in {"completed", "no_show"})
    IN  [k \in 1..Len(all) |->
            [user_id |-> 4, type |-> "appointment_booked", title |-> "Counseling",
             report |-> NullText, related_type |-> "appointment", related_id |-> all[k]]]
        \o
        [k \in 1..Len(done) |->
            [user_id |-> 4, type |-> "appointment_outcome",
             title |-> IF SlotRow(done[k]).status = "completed"
                       THEN "Completed" ELSE "Missed (no-show)",
             report |-> NullText, related_type |-> "appointment", related_id |-> done[k]]]

InitSlots ==
    /\ avail \in AvailConfigs
    /\ \E ids \in RowSets(MaxRows) :
        /\ appts = [i \in ids |-> SlotRow(i)]
        /\ notifs = NotifsOfRows(ids)
    /\ nextId = RowCount + 1
    /\ selected = [c \in listStudents |-> NoSlot]
    /\ slotsOut = <<>>
    /\ listOut = <<>>
    /\ appointments = [c \in listCounselors |-> <<>>]
    /\ datesOut = <<>>
    /\ availOut = <<>>
    /\ posted = NoBody
    /\ resp = Respond("none", Null, 0)

QueryDates == {6, 7}

SlotsRequest ==
    \E date \in QueryDates, counselorId \in {Undef, 2}, type \in {UndefText, "doctor"} :
        QuerySlots(4, date, counselorId, type)

NextSlots == SlotsRequest

SpecSlots == InitSlots /\ [][NextSlots]_vars

(***************************************************************************)
(* SpecCreate: POST /api/appointments with every kind of body, by the      *)
(* admin, a counselor and a student, while counselor 2 may open Monday     *)
(* 09:00-10:00.                                                            *)
(***************************************************************************)
MaxCreated == 2     \* appointments ever created in SpecCreate

\* "2025-01-32T09:00:00": no date
BadDate == At(32, HM(9, 0), 0)

\* Monday 11:00, outside the window of counselor 2
T3 == At(6, HM(11, 0), 0)

\* an id that no user has
UnknownId == 9

CreateCallers == {1, 2, 4}

\* studentId: absent, student 5, counselor 2; assignedTo: absent, counselor 2,
\* student 4, the admin, nobody's id
RichBodies ==
    { Body(sid, at, to) :
        sid \in {Undef, 5, 2},
        at \in {<<>>, <<T1>>, <<T3>>, <<BadDate>>},
        to \in {Undef, 2, 4, 1, UnknownId} }

\* the bodies that are sent: the assignee is counselor 2 or the admin
SentBodies == {body \in RichBodies : body.assignedTo \in {2, 1}}

CreateAny ==
    /\ nextId <= MaxCreated
    /\ \E user \in CreateCallers, body \in SentBodies : Create(user, body)

NextCreate == OpenAvailability \/ CreateAny

SpecCreate == Init /\ [][NextCreate]_vars

(***************************************************************************)
(* SpecOutcome: student 4 books with counselor 2, naming a room; the       *)
(* counselors record outcomes, with or without a report, the student       *)
(* reschedules and cancels, counselor 2 deletes.                           *)
(***************************************************************************)
MaxOutcomes == 2    \* appointment_outcome notifications in SpecOutcome

OutcomeBookings ==
    { [Body(Undef, <<T1>>, to) EXCEPT !.location = "Room 1", !.providerOrNotes = "bring id"] :
        to \in {2} }

OutcomeRequests ==
    { [user |-> 2, body |-> PatchBody("completed", <<>>, Undef, "seen")],
      [user |-> 2, body |-> PatchBody("no_show", <<>>, Undef, UndefText)],
      [user |-> 2, body |-> PatchBody(UndefText, <<>>, Undef, "seen")],
      [user |-> 3, body |-> PatchBody("completed", <<>>, Undef, UndefText)],
      [user |-> 4, body |-> PatchBody("cancelled", <<>>, Undef, UndefText)],
      [user |-> 4, body |-> PatchBody(UndefText, <<T2>>, Undef, UndefText)] }

\* the appointment_outcome rows of a notifications table
Outcomes(rows) == SelectSeq(rows, LAMBDA n : n.type = "appointment_outcome")

OutcomeBook ==
    /\ nextId <= MaxAppts
    /\ \E body \in OutcomeBookings : Create(4, body)

\* a request that would write an outcome beyond MaxOutcomes is not explored
OutcomePatch ==
    \E rq \in OutcomeRequests, id \in 1..MaxAppts :
        /\ Len(Outcomes(PatchAppointment(DB, rq.user, id, rq.body).db.notifs)) <= MaxOutcomes
        /\ Patch(rq.user, id, rq.body)

OutcomeDelete ==
    \E id \in 1..MaxAppts : Delete(2, id)

NextOutcome == OutcomeBook \/ OutcomePatch \/ OutcomeDelete

SpecOutcome == Init /\ [][NextOutcome]_vars

(***************************************************************************)
(* SpecAccess: who sees and who removes which appointment.  Student 4      *)
(* books with counselor 2, student 5 with no counselor, the admin tries    *)
(* every route; appointments are cancelled, deleted, listed.               *)
(***************************************************************************)
MaxListed == 2      \* appointments ever created in SpecAccess

AccessRequests ==
    { [user |-> 4, body |-> Body(Undef, <<T1>>, 2)],
      [user |-> 5, body |-> Body(4, <<T2>>, Undef)],
      [user |-> 1, body |-> Body(4, <<T1>>, 2)] }

ListQueries ==
    { ListQuery(5, "cancelled", <<>>, <<>>),
      ListQuery(Undef, UndefText, <<T2>>, <<T2>>) }

AccessCreate ==
    /\ nextId <= MaxListed
    /\ \E rq \in AccessRequests : Create(rq.user, rq.body)

ListAppointments ==
    \E user \in {1, 3, 4}, query \in ListQueries : List(user, query)

AccessCancel ==
    \E user \in {1, 4, 5}, id \in 1..MaxListed :
        Patch(user, id, PatchBody("cancelled", <<>>, Undef, UndefText))

AccessDelete ==
    \E user \in {1, 2, 4}, id \in 1..MaxListed : Delete(user, id)

NextAccess ==
    OpenAvailability \/ AccessCreate \/ ListAppointments \/ AccessCancel \/ AccessDelete

SpecAccess == Init /\ [][NextAccess]_vars

(***************************************************************************)
(* Vocabulary of the properties.                                           *)
(***************************************************************************)
TerminalStatuses == {"completed", "no_show", "cancelled"}

MinuteOf(t) == 60 * t.h + t.m

\* two date-times name the same minute of the same day
SameMinute(a, b) == a.date = b.date /\ a.time.h = b.time.h /\ a.time.m = b.time.m

\* a scheduled appointment of provider p on the minute of s
Occupies(row, p, s) ==
    /\ row.assigned_to = p
    /\ row.status = "scheduled"
    /\ SameMinute(row.scheduled_at, s)

\* the times the properties range over: 08:30 to 10:45 in quarters of an hour
CandidateTimes == {HM(8, 30), HM(8, 45)} \cup {HM(h, m) : h \in 9..10, m \in {0, 15, 30, 45}}

\* window w of a date's weekday yields a slot that starts at time t
YieldsSlot(w, date, t) ==
    /\ w.day_of_week = getDay(date)
    /\ MinuteOf(t) >= MinuteOf(w.start_time)
    /\ (MinuteOf(t) - MinuteOf(w.start_time)) % 30 = 0
    /\ MinuteOf(t) + 30 <= MinuteOf(w.end_time)

StartsReturned(out, p) == {out[i].start : i \in {j \in 1..Len(out) : out[j].counselor_id = p}}

\* C3: a slot (p, s) is returned exactly when s is generated from one of p's
\* windows of the date's weekday and no scheduled appointment assigned to p
\* lies on the minute of s; no other appointment removes a slot.
ThmC3 ==
    \A date \in QueryDates, p \in listCounselors :
        LET returned == StartsReturned(getAvailableSlots(DB, date, Undef, UndefText), p)
        IN  \A s \in returned \cup {At(date, t, 0) : t \in CandidateTimes} :
                s \in returned <=>
                    /\ s.date = date /\ s.sec = 0
                    /\ \E i \in 1..Len(avail[p]) : YieldsSlot(avail[p][i], date, s.time)
                    /\ ~ \E id \in DOMAIN appts : Occupies(appts[id], p, s)

\* a query answered while counselor 2's 09:00 is taken by an appointment stored
\* with seconds, and a cancelled appointment of counselor 3 sits on 09:00 too
WitC3 ==
    /\ resp.op = "slots"
    /\ slotsOut = getAvailableSlots(DB, 6, Undef, UndefText)
    /\ \E id \in DOMAIN appts :
        Occupies(appts[id], 2, At(6, HM(9, 0), 0)) /\ appts[id].scheduled_at.sec = 30
    /\ \E id \in DOMAIN appts :
        /\ appts[id].assigned_to = 3
        /\ appts[id].status = "cancelled"
        /\ appts[id].scheduled_at = At(6, HM(9, 0), 30)
    /\ At(6, HM(9, 0), 0) \notin StartsReturned(slotsOut, 2)
    /\ At(6, HM(9, 30), 0) \in StartsReturned(slotsOut, 2)
    /\ At(6, HM(9, 0), 0) \in StartsReturned(slotsOut, 3)

\* C4: for a provider without bookings, the slots of a date are exactly, per
\* window of that weekday, the half-hours [start + 30k, start + 30(k+1)) that
\* end within the window; every slot lasts 30 minutes.
ThmC4 ==
    \A date \in QueryDates, p \in listCounselors :
        (~ \E id \in DOMAIN appts : appts[id].assigned_to = p /\ appts[id].status = "scheduled")
        =>
        LET out == getAvailableSlots(DB, date, p, UndefText)
        IN  /\ \A i \in 1..Len(out) :
                /\ out[i].counselor_id = p
                /\ out[i].start.date = date /\ out[i].end.date = date
                /\ out[i].start.sec = 0 /\ out[i].end.sec = 0
                /\ MinuteOf(out[i].end.time) = MinuteOf(out[i].start.time) + 30
                /\ \E j \in 1..Len(avail[p]) :
                    /\ avail[p][j].day_of_week = getDay(date)
                    /\ MinuteOf(out[i].end.time) <= MinuteOf(avail[p][j].end_time)
            /\ \A t \in CandidateTimes \cup {out[i].start.time : i \in 1..Len(out)} :
                Cardinality({i \in 1..Len(out) : out[i].start.time = t})
                    = Cardinality({j \in 1..Len(avail[p]) : YieldsSlot(avail[p][j], date, t)})

\* the answer for a window 09:15-10:30: 09:15 and 09:45, the last quarter dropped
WitC4 ==
    /\ resp.op = "slots"
    /\ avail[2] = <<Window(1, HM(9, 15), HM(10, 30))>>
    /\ ~ \E id \in DOMAIN appts : appts[id].assigned_to = 2 /\ appts[id].status = "scheduled"
    /\ Len(slotsOut) = 2
    /\ slotsOut[1].counselor_id = 2 /\ slotsOut[2].counselor_id = 2
    /\ slotsOut[1].start = At(6, HM(9, 15), 0)
    /\ slotsOut[2].end = At(6, HM(10, 15), 0)

(***************************************************************************)
(* Properties of booking (SpecBooking).                                    *)
(***************************************************************************)
\* the scheduled appointments that sit on a slot
OnSlot(rows, slot) ==
    {id \in DOMAIN rows : Occupies(rows[id], slot.counselor_id, slot.start)}

\* C1: for every provider and start time at most one scheduled appointment is
\* assigned to that provider at that start.
CexC1 ==
    \A i, j \in DOMAIN appts :
        ( /\ appts[i].status = "scheduled" /\ appts[j].status = "scheduled"
          /\ appts[i].assigned_to # Null
          /\ appts[i].assigned_to = appts[j].assigned_to
          /\ appts[i].scheduled_at = appts[j].scheduled_at )
        => i = j

\* C2: a client that submits a slot it was shown always gets its appointment
\* created (201), scheduled on that provider and start, also when another
\* client's scheduled appointment already sits there: the slot then holds one
\* more scheduled appointment than before and no request is refused.
ThmC2 ==
    [][ \A c \in Clients :
            Book(c) =>
                LET slot == selected[c]
                IN  /\ resp'.code = 201
                    /\ nextId \in DOMAIN appts'
                    /\ appts'[nextId].student_id = c
                    /\ Occupies(appts'[nextId], slot.counselor_id, slot.start)
                    /\ \A id \in DOMAIN appts : id \in DOMAIN appts' /\ appts'[id] = appts[id]
                    /\ OnSlot(appts', slot) = OnSlot(appts, slot) \cup {nextId}
      ]_vars

\* both students hold a scheduled appointment on the same provider and start,
\* the second of them just created
WitC2 ==
    /\ resp.op = "post" /\ resp.code = 201
    /\ \E i, j \in DOMAIN appts :
        /\ i < j /\ j = nextId - 1
        /\ appts[i].student_id # appts[j].student_id
        /\ appts[j].student_id = resp.caller
        /\ appts[i].assigned_to = 2
        /\ Occupies(appts[j], 2, appts[i].scheduled_at)
        /\ appts[i].status = "scheduled"

\* C5: booking a returned slot and then cancelling that appointment gives back
\* the slot list of before the booking (and the booking had removed the slot).
ThmC5 ==
    \A c \in Clients, date \in BookingDates :
        LET before == GetSlots(DB, date, Undef, "counseling")
            cancel == PatchBody("cancelled", <<>>, Undef, UndefText)
        IN  \A i \in 1..Len(before) :
                LET booked == PostAppointments(DB, c, SubmitBody(before[i]))
                    cancelled == PatchAppointment(booked.db, c, nextId, cancel)
                IN  /\ booked.code = 201
                    /\ Occupies(booked.db.appts[nextId], before[i].counselor_id, before[i].start)
                    /\ before[i] \notin SeqRange(GetSlots(booked.db, date, Undef, "counseling"))
                    /\ cancelled.code = 200
                    /\ cancelled.db.appts[nextId].status = "cancelled"
                    /\ GetSlots(cancelled.db, date, Undef, "counseling") = before

\* after a booking was cancelled the modal shows its slot again, with the full list
WitC5 ==
    /\ resp.op = "slots"
    /\ Len(slotsOut) = 2
    /\ \E id \in DOMAIN appts :
        /\ appts[id].status = "cancelled"
        /\ \E i \in 1..Len(slotsOut) :
            /\ slotsOut[i].start = appts[id].scheduled_at
            /\ slotsOut[i].counselor_id = appts[id].assigned_to

(***************************************************************************)
(* Properties of the role rules (Spec).                                    *)
(***************************************************************************)
\* C6: once an appointment's status is completed, no_show or cancelled, no
\* accepted update changes its status again.
CexC6 ==
    [][ \A id \in DOMAIN appts :
            (appts[id].status \in TerminalStatuses /\ id \in DOMAIN appts')
                => appts'[id].status = appts[id].status
      ]_vars

\* C7: a counselor's update is applied only to an appointment that is
\* unassigned or assigned to that counselor; on another counselor's appointment
\* it is refused with 403, changing no appointment and writing no notification;
\* claiming an unassigned appointment (assigned_to = self) succeeds.
ThmC7 ==
    \A c \in listCounselors, id \in DOMAIN appts, body \in PatchBodies :
        LET r == PatchAppointment(DB, c, id, body)
            mine == appts[id].assigned_to \in {Null, c}
        IN  /\ ~mine => (r.code = 403 /\ r.db = DB)
            /\ (r.code = 200 \/ r.db # DB) => mine
            /\ (appts[id].assigned_to = Null /\ body.assigned_to = c) =>
                    /\ r.code = 200
                    /\ r.db.appts[id].assigned_to = c
                    /\ \A f \in {"student_id", "scheduled_at", "status", "counselor_report"} :
                            r.db.appts[id][f] = appts[id][f]

\* counselor 2 was just refused on the appointment of counselor 3
WitC7 ==
    /\ resp = Respond("patch", 2, 403)
    /\ 1 \in DOMAIN appts
    /\ appts[1].assigned_to = 3
    /\ Len(notifs) = 1

CexC9 ==
    [][ \A id \in DOMAIN appts :
            ( /\ resp'.op = "patch"
              /\ resp'.caller \in listStudents
              /\ \/ appts[id].student_id # resp'.caller
                 \/ appts[id].status \in TerminalStatuses )
            => (id \in DOMAIN appts' /\ appts'[id] = appts[id])
      ]_vars

\* C10: an appointment is removed only by the counselor it is assigned to.
CexC10 ==
    [][ \A id \in DOMAIN appts :
            id \notin DOMAIN appts' =>
                /\ resp'.op = "delete"
                /\ resp'.caller \in listCounselors
                /\ appts[id].assigned_to = resp'.caller
      ]_vars

(***************************************************************************)
(* Properties of visibility and removal (SpecAccess).                      *)
(***************************************************************************)
\* the rows a caller may be shown
Visible(row, user) ==
    IF RoleOf(user) = "counselor" THEN row.assigned_to \in {user, Null}
    ELSE IF RoleOf(user) = "student" THEN row.student_id = user
    ELSE FALSE

\* C11: the list returned to a counselor holds only appointments assigned to
\* that counselor or to nobody, and the list returned to a student holds only
\* that student's appointments, whatever the query parameters.
ThmC11 ==
    /\ \A user \in UserIds, query \in ListQueries :
            LET out == GetAppointments(DB, user, query).body
            IN  \A i \in 1..Len(out) : Visible(out[i], user)
    /\ resp.op = "list" => \A i \in 1..Len(listOut) : Visible(listOut[i], resp.caller)

\* counselor 3 was shown the unassigned appointment only while counselor 2
\* holds another, and student 4, asking for student 5's, is shown the own one
WitC11 ==
    /\ resp.op = "list" /\ resp.code = 200
    /\ resp.caller = 3
    /\ Len(listOut) = 1
    /\ listOut[1].assigned_to = Null /\ listOut[1].student_id = 5
    /\ \E id \in DOMAIN appts : appts[id].assigned_to = 2 /\ appts[id].student_id = 4
    /\ LET mine == GetAppointments(DB, 4, ListQuery(5, UndefText, <<>>, <<>>)).body
       IN  Len(mine) = 1 /\ mine[1].student_id = 4

ThmC19 ==
    [][ /\ \A id \in DOMAIN appts :
            (resp'.op = "delete" /\ resp'.code = 204 /\ id \notin DOMAIN appts') =>
                /\ notifs' = notifs
                /\ DOMAIN appts' = DOMAIN appts \ {id}
                /\ \A k \in DOMAIN appts' : appts'[k] = appts[k]
                /\ \A user \in UserIds, query \in ListQueries :
                        LET out == GetAppointments(DB', user, query).body
                        IN  \A i \in 1..Len(out) : out[i].id # id
                /\ \A date \in BookingDates :
                        LET p == appts[id].assigned_to
                            s == At(date, appts[id].scheduled_at.time, 0)
                        IN  p \in listCounselors =>
                              ( s \in StartsReturned(getAvailableSlots(DB', date, Undef, UndefText), p)
                                <=> /\ \E i \in 1..Len(avail[p]) : YieldsSlot(avail[p][i], date, s.time)
                                    /\ ~ \E k \in DOMAIN appts' : Occupies(appts'[k], p, s) )
        /\ (resp'.op = "delete" /\ resp'.code = 204) => DOMAIN appts' # DOMAIN appts
        /\ \A id \in 1..(nextId - 1) : id \notin DOMAIN appts => id \notin DOMAIN appts'
        /\ resp'.op = "list" =>
                \A i \in 1..Len(listOut') :
                    listOut'[i].id \in DOMAIN appts' /\ listOut'[i] = appts'[listOut'[i].id]
      ]_vars

\* appointment 1 of student 4 with counselor 2 was deleted: the student's list
\* is empty, the 09:00 slot of counselor 2 is offered again, and the only
\* notification is the one of the booking
WitC19 ==
    /\ nextId = 2 /\ appts = <<>>
    /\ resp = Respond("list", 4, 200)
    /\ listOut = <<>>
    /\ Len(notifs) = 1 /\ notifs[1].related_id = 1 /\ notifs[1].user_id = 4
    /\ avail[2] = MondayMorning
    /\ T1 \in StartsReturned(getAvailableSlots(DB, 6, Undef, UndefText), 2)

(***************************************************************************)
(* Properties of create (SpecCreate).                                      *)
(***************************************************************************)
\* the student a create of this caller and body is for
StudentOf(user, body) == IF RoleOf(user) = "student" THEN user ELSE body.studentId

ThmC14 ==
    /\ \A user \in listStudents, body \in RichBodies :
          LET r == PostAppointments(DB, user, body)
          IN  r.code = 201 =>
                /\ r.db.appts[nextId].student_id = user
                /\ r.db.appts[nextId].created_by = user
    /\ \A id \in DOMAIN appts :
          appts[id].created_by \in listStudents => appts[id].student_id = appts[id].created_by
    /\ (resp.op = "post" /\ resp.code = 201 /\ resp.caller \in listStudents) =>
          /\ appts[nextId - 1].student_id = resp.caller
          /\ appts[nextId - 1].created_by = resp.caller

\* student 4 sent studentId = 5 and got an appointment of student 4
WitC14 ==
    /\ resp = Respond("post", 4, 201)
    /\ posted.studentId = 5
    /\ appts[nextId - 1].student_id = 4
    /\ appts[nextId - 1].created_by = 4
    /\ notifs[Len(notifs)].user_id = 4

\* C15: a create whose assignedTo is not a counselor's id still succeeds, with
\* assigned_to = null; with a counselor's id the appointment is assigned to it.
ThmC15 ==
    /\ \A user \in CreateCallers, body \in RichBodies :
          LET r == PostAppointments(DB, user, body)
              plain == PostAppointments(DB, user, [body EXCEPT !.assignedTo = Undef])
          IN  /\ r.code = plain.code
              /\ r.code = 201 =>
                    r.db.appts[nextId].assigned_to =
                        IF body.assignedTo \in listCounselors THEN body.assignedTo ELSE Null
    /\ (resp.op = "post" /\ resp.code = 201) =>
          appts[nextId - 1].assigned_to =
              IF posted.assignedTo \in listCounselors THEN posted.assignedTo ELSE Null

\* student 4 named the admin's id as assignee: the appointment exists,
\* unassigned like the one before it
WitC15 ==
    /\ resp = Respond("post", 4, 201)
    /\ posted.assignedTo = 1
    /\ DOMAIN appts = {1, 2}
    /\ appts[1].assigned_to = Null /\ appts[2].assigned_to = Null
    /\ appts[2].status = "scheduled"

\* C16: a create that succeeds with an assigned provider is on a slot that
\* getAvailableSlots returned for that provider just before the create.
CexC16 ==
    [][ (resp'.op = "post" /\ resp'.code = 201 /\ appts'[nextId].assigned_to # Null) =>
            appts'[nextId].scheduled_at \in
                StartsReturned(
                    getAvailableSlots(DB, appts'[nextId].scheduled_at.date, Undef, UndefText),
                    appts'[nextId].assigned_to)
      ]_vars

(***************************************************************************)
(* Properties of updates and outcomes (SpecOutcome).                       *)
(***************************************************************************)
\* the update bodies the properties range over: every status text with five
\* combinations of the remaining fields
FullPatchBodies ==
    { [status |-> st, scheduled_at |-> rest[4], location |-> rest[3],
       provider_or_notes |-> rest[3], admin_notes |-> rest[3],
       assigned_to |-> rest[1], counselor_report |-> rest[2]] :
        st \in AppointmentStatuses \cup {UndefText, "archived"},
        rest \in { <<Undef, UndefText, UndefText, <<>> >>,
                   <<2, "seen", UndefText, <<>> >>,
                   <<Null, NullText, "Room 9", <<T2>> >>,
                   <<3, "", UndefText, <<>> >>,
                   <<Undef, "late", "Room 9", <<T2>> >> } }

\* the counselors and the student who owns the appointments
Updaters == listCounselors \cup {4}

\* C17: a successful counselor update to completed or no_show appends exactly
\* one appointment_outcome notification, addressed to the appointment's
\* student and carrying the stored report when there is one; no other update,
\* no create and no delete adds an appointment_outcome notification.
ThmC17 ==
    /\ \A user \in Updaters, id \in DOMAIN appts, body \in FullPatchBodies :
          LET r == PatchAppointment(DB, user, id, body)
          IN  IF /\ RoleOf(user) = "counselor"
                 /\ r.code = 200
                 /\ body.status \in {"completed", "no_show"}
              THEN /\ Len(r.db.notifs) = Len(notifs) + 1
                   /\ SubSeq(r.db.notifs, 1, Len(notifs)) = notifs
                   /\ LET n == r.db.notifs[Len(r.db.notifs)]
                          stored == r.db.appts[id].counselor_report
                      IN  /\ n.type = "appointment_outcome"
                          /\ n.user_id = appts[id].student_id
                          /\ n.related_type = "appointment" /\ n.related_id = id
                          /\ n.title = IF body.status = "completed"
                                       THEN "Completed" ELSE "Missed (no-show)"
                          /\ n.report = IF stored \in {NullText, ""} THEN NullText ELSE stored
              ELSE r.db.notifs = notifs
    /\ \A user \in UserIds, id \in DOMAIN appts :
          DeleteAppointmentRoute(DB, user, id).db.notifs = notifs
    /\ \A user \in UserIds, body \in OutcomeBookings :
          Outcomes(PostAppointments(DB, user, body).db.notifs) = Outcomes(notifs)

\* counselor 2 marked appointment 1 of student 4 a no-show after having
\* completed it with the report "seen": the new notification carries "seen"
WitC17 ==
    /\ resp = Respond("patch", 2, 200)
    /\ 1 \in DOMAIN appts
    /\ appts[1].status = "no_show" /\ appts[1].counselor_report = "seen"
    /\ LET n == notifs[Len(notifs)]
       IN  /\ n.type = "appointment_outcome" /\ n.title = "Missed (no-show)"
           /\ n.user_id = 4 /\ n.related_id = 1 /\ n.report = "seen"

\* C18: at most one appointment_outcome notification ever refers to one
\* appointment.
CexC18 ==
    \A id \in 1..(nextId - 1) :
        Len(SelectSeq(Outcomes(notifs), LAMBDA n : n.related_id = id)) <= 1

CexC21 ==
    \A user \in listCounselors, id \in DOMAIN appts :
        LET nulled == PatchAppointment(DB, user, id, PatchBody(UndefText, <<>>, Null, NullText))
            omitted == PatchAppointment(DB, user, id, PatchBody("scheduled", <<>>, Undef, UndefText))
        IN  /\ nulled.code = 200 =>
                  /\ nulled.db.appts[id].assigned_to = Null
                  /\ nulled.db.appts[id].counselor_report = NullText
            /\ omitted.code = 200 =>
                  /\ omitted.db.appts[id].assigned_to = appts[id].assigned_to
                  /\ omitted.db.appts[id].counselor_report = appts[id].counselor_report

(***************************************************************************)
(* SpecAssign: student 4 requests an appointment without a provider; both  *)
(* counselors load their dashboards and accept pending requests, and       *)
(* counselors send updates that hand an appointment to someone else.       *)
(***************************************************************************)
MaxPending == 1     \* appointments ever created in SpecAssign

\* `now` of the dashboard: a clock before every modelled appointment time
DashboardNow == At(1, HM(0, 0), 0)

\* CounselorDashboard.pendingRequests, nothing declined
pendingRequests(c) ==
    SelectSeq(appointments[c], LAMBDA a :
        /\ a.status = "scheduled"
        /\ a.assigned_to = Null
        /\ TextLE(DashboardNow, a.scheduled_at))

PendingIds(c) == {pendingRequests(c)[i].id : i \in 1..Len(pendingRequests(c))}

\* the body handleAccept sends
AcceptBody(c) == PatchBody(UndefText, <<>>, c, UndefText)

\* CounselorDashboard.load
Load(c) ==
    LET r == GetAppointments(DB, c, ListQuery(Undef, UndefText, <<>>, <<>>))
    IN  /\ appointments' = [appointments EXCEPT ![c] = r.body]
        /\ listOut' = r.body
        /\ resp' = Respond("list", c, r.code)
        /\ posted' = NoBody
        /\ UNCHANGED <<appts, nextId, notifs, avail, selected, slotsOut, datesOut, availOut>>

\* CounselorDashboard.handleAccept on a row of pendingRequests
HandleAccept(c) ==
    \E id \in PendingIds(c) : Patch(c, id, AcceptBody(c))

RequestUnassigned ==
    /\ nextId <= MaxPending
    /\ Create(4, Body(Undef, <<T1>>, Undef))

LoadDashboard == \E c \in listCounselors : Load(c)

AcceptRequest == \E c \in listCounselors : HandleAccept(c)

\* the ids a counselor's update names as the new assignee
Assignees == {Null, 4, 1, UnknownId}

Reassign ==
    \E c \in listCounselors, id \in 1..MaxPending, to \in Assignees :
        Patch(c, id, PatchBody(UndefText, <<>>, to, UndefText))

NextAssign == RequestUnassigned \/ LoadDashboard \/ AcceptRequest \/ Reassign

SpecAssign == Init /\ [][NextAssign]_vars

(***************************************************************************)
(* Properties of assignment (SpecAssign).                                  *)
(***************************************************************************)
\* C28: every appointment's assigned_to is null or the id of a user with
\* role counselor.
CexC28 ==
    \A id \in DOMAIN appts :
        \/ appts[id].assigned_to = Null
        \/ /\ appts[id].assigned_to \in UserIds
           /\ RoleOf(appts[id].assigned_to) = "counselor"

\* C29: when two different counselors both see an unassigned appointment as
\* pending and both accept it, then in either order the request processed
\* first is answered 200 and assigns the appointment to its sender, and the
\* request processed second is answered 403 and changes nothing.
ThmC29 ==
    \A c1 \in listCounselors, c2 \in listCounselors, id \in DOMAIN appts :
        (/\ c1 # c2
         /\ id \in PendingIds(c1) /\ id \in PendingIds(c2)
         /\ appts[id].assigned_to = Null) =>
            LET first == PatchAppointment(DB, c1, id, AcceptBody(c1))
                second == PatchAppointment(first.db, c2, id, AcceptBody(c2))
            IN  /\ first.code = 200
                /\ first.db.appts[id].assigned_to = c1
                /\ second.code = 403
                /\ second.db = first.db

\* both dashboards still show appointment 1 as pending; counselor 2 accepted
\* it first, and counselor 3's accept has just been refused
WitC29 ==
    /\ resp = Respond("patch", 3, 403)
    /\ 1 \in DOMAIN appts /\ appts[1].assigned_to = 2
    /\ 1 \in PendingIds(2) /\ 1 \in PendingIds(3)

(***************************************************************************)
(* SpecDates: counselor 2 and the doctor 3 each save a week of             *)
(* availability, student 4 books a slot, and the booking calendar asks     *)
(* /api/slots/dates for the dates of a month.                              *)
(***************************************************************************)
MaxDated == 1       \* appointments ever created in SpecDates

\* Monday 09:00-10:00 (two slots); Tuesday 09:00-09:30 (one slot)
WeekLists ==
    { <<Window(1, HM(9, 0), HM(10, 0))>>,
      <<Window(2, HM(9, 0), HM(9, 30))>> }

\* 2025-01-06 is a Monday, 2025-01-07 a Tuesday
DatedTimes == {At(6, HM(9, 0), 0), At(7, HM(9, 0), 0)}

\* January, and 13 as in month=2025-13
QueryMonths == {1, 13}

SaveWeek ==
    \E c \in listCounselors, w \in WeekLists :
        /\ avail[c] = <<>>
        /\ SetAvailability(c, w)

DatedBooking ==
    /\ nextId <= MaxDated
    /\ \E at \in DatedTimes, to \in listCounselors : Create(4, Body(Undef, <<at>>, to))

DatesRequest ==
    \E month \in QueryMonths, counselorId \in {Undef, 3}, type \in {UndefText, "counseling"} :
        QuerySlotDates(4, month, counselorId, type)

NextDates == SaveWeek \/ DatedBooking \/ DatesRequest

SpecDates == Init /\ [][NextDates]_vars

(***************************************************************************)
(* Properties of the provider filters and of the dates of a month          *)
(* (SpecDates).                                                            *)
(***************************************************************************)
\* the provider ids and the types the properties range over
ProviderIds == {Undef, 2, 3, 4, UnknownId}

SlotTypes == AppointmentTypes \cup {UndefText}

MonthDates == 1..lastDay

\* type admits the provider: doctor only doctors, counseling only others
Admits(type, p) ==
    IF type = "doctor" THEN ProviderTypeOf(p) = "doctor"
    ELSE IF type = "counseling" THEN ProviderTypeOf(p) # "doctor"
    ELSE TRUE

\* C22: getAvailableSlots returns only slots of providers the type admits
\* (doctor: provider_type doctor; counseling: provider_type not doctor;
\* follow_up and no type: every provider, with the same result), also when
\* a provider id is given, and a provider of the wrong provider_type yields
\* the empty list; getDatesWithSlots returns a date only when a provider
\* the type admits has a slot on it, and for follow_up what it returns for
\* no type.
ThmC22 ==
    \A counselorId \in ProviderIds, type \in SlotTypes :
        /\ \A date \in MonthDates :
              LET out == getAvailableSlots(DB, date, counselorId, type)
              IN  /\ \A i \in 1..Len(out) : Admits(type, out[i].counselor_id)
                  /\ (counselorId \in listCounselors /\ ~Admits(type, counselorId))
                        => out = <<>>
                  /\ type \in {"follow_up", UndefText}
                        => out = getAvailableSlots(DB, date, counselorId, UndefText)
        /\ LET dates == getDatesWithSlots(DB, 1, counselorId, type)
           IN  /\ \A k \in 1..Len(dates) :
                     \E p \in listCounselors :
                        /\ Admits(type, p)
                        /\ counselorId \in listCounselors => p = counselorId
                        /\ getAvailableSlots(DB, dates[k], p, UndefText) # <<>>
               /\ (counselorId \in listCounselors /\ ~Admits(type, counselorId))
                     => dates = <<>>
               /\ type \in {"follow_up", UndefText}
                     => dates = getDatesWithSlots(DB, 1, counselorId, UndefText)

\* counselor 2 is open on Mondays and the doctor on Tuesdays: the dates for
\* type counseling are the Mondays of January
WitC22 ==
    /\ resp = Respond("dates", 4, 200)
    /\ avail[2] = <<Window(1, HM(9, 0), HM(10, 0))>>
    /\ avail[3] = <<Window(2, HM(9, 0), HM(9, 30))>>
    /\ appts = <<>>
    /\ datesOut = <<6, 13, 20, 27>>
    /\ getDatesWithSlots(DB, 1, Undef, "doctor") = <<7, 14, 21, 28>>

\* C24: for the month and filters given, getDatesWithSlots returns, strictly
\* ascending, exactly the dates of the month on which getAvailableSlots with
\* the same filters is non-empty; for a provider whose windows all have one
\* day_of_week every returned date is on that weekday.
ThmC24 ==
    \A counselorId \in ProviderIds, type \in SlotTypes :
        LET dates == getDatesWithSlots(DB, 1, counselorId, type)
        IN  /\ \A i \in 1..Len(dates), j \in 1..Len(dates) : i < j => dates[i] < dates[j]
            /\ SeqRange(dates) =
                  {d \in MonthDates : getAvailableSlots(DB, d, counselorId, type) # <<>>}
            /\ \A day \in 0..6 :
                  (/\ counselorId \in listCounselors
                   /\ \A i \in 1..Len(avail[counselorId]) :
                          avail[counselorId][i].day_of_week = day)
                    => \A k \in 1..Len(dates) : getDay(dates[k]) = day

\* the doctor is open on Tuesdays 09:00-09:30 and is booked on the 7th: the
\* dates of the doctor are the other Tuesdays of January
WitC24 ==
    /\ resp = Respond("dates", 4, 200)
    /\ avail[3] = <<Window(2, HM(9, 0), HM(9, 30))>>
    /\ \E id \in DOMAIN appts :
          appts[id].assigned_to = 3 /\ appts[id].scheduled_at = At(7, HM(9, 0), 0)
    /\ datesOut = <<14, 21, 28>>

(***************************************************************************)
(* Properties of the provider filter and of the order of the slots         *)
(* (SpecSlots).                                                            *)
(***************************************************************************)
\* provider ids a request can supply: 0, the counselors, a student, no user
SuppliedIds == {0, 2, 3, 4, UnknownId}

\* C23: when a provider id is supplied every returned slot has that
\* counselor_id, so the slots of all counselors come only without an id, and
\* the result is empty when the id is not the id of a counselor.
CexC23 ==
    \A date \in QueryDates, counselorId \in SuppliedIds :
        LET out == GetSlots(DB, date, counselorId, UndefText)
        IN  /\ \A i \in 1..Len(out) : out[i].counselor_id = counselorId
            /\ counselorId \notin listCounselors => out = <<>>

\* the place of provider p in the order the providers are iterated
ProviderPos(cs, p) == CHOOSE k \in 1..Len(cs) : cs[k] = p

\* C27: the slots are in ascending order of start, and of two slots with
\* equal start from different providers the one whose provider is iterated
\* first comes first.
ThmC27 ==
    \A date \in QueryDates, counselorId \in {Undef, 2, 3}, type \in SlotTypes :
        LET out == getAvailableSlots(DB, date, counselorId, type)
            cs == SlotCounselors(counselorId, type)
        IN  \A i \in 1..Len(out), j \in 1..Len(out) :
              i < j =>
                /\ TextLE(out[i].start, out[j].start)
                /\ (out[i].start = out[j].start /\ out[i].counselor_id # out[j].counselor_id)
                      => ProviderPos(cs, out[i].counselor_id) < ProviderPos(cs, out[j].counselor_id)

\* counselor 2 lists 09:30-10:00 before 09:00-09:30 and the doctor 3 is open
\* 09:00-10:00: the slots come back as 09:00 of 2, 09:00 of 3, 09:30 of 2,
\* 09:30 of 3
WitC27 ==
    /\ resp = Respond("slots", 4, 200)
    /\ avail[2] = <<Window(1, HM(9, 30), HM(10, 0)), Window(1, HM(9, 0), HM(9, 30))>>
    /\ Len(slotsOut) = 4
    /\ slotsOut[1].start = At(6, HM(9, 0), 0) /\ slotsOut[1].counselor_id = 2
    /\ slotsOut[2].start = At(6, HM(9, 0), 0) /\ slotsOut[2].counselor_id = 3
    /\ slotsOut[3].start = At(6, HM(9, 30), 0) /\ slotsOut[3].counselor_id = 2
    /\ slotsOut[4].start = At(6, HM(9, 30), 0) /\ slotsOut[4].counselor_id = 3

(***************************************************************************)
(* SpecAvail: the counselors (and a student, who is refused) save          *)
(* availability lists that hold windows the server drops, counselor 2 and  *)
(* the student read the availability back, student 4 books counselor 2,    *)
(* and the slots of Monday the 6th are queried.                            *)
(***************************************************************************)
MaxHeld == 1        \* appointments ever created in SpecAvail

\* Monday 09:00-10:00, then a day 7, an empty start_time, no day_of_week
WindowsA ==
    <<Window(1, HM(9, 0), HM(10, 0)),
      Window(7, HM(9, 0), HM(10, 0)),
      Window(2, EmptyTime, HM(10, 0)),
      Window(Undef, HM(9, 0), HM(10, 0))>>

\* Tuesday 09:00-09:30 and Monday 10:00-11:00, with an end_time that is not
\* a string and a negative day between and after them
WindowsB ==
    <<Window(2, HM(9, 0), HM(9, 30)),
      Window(3, HM(9, 0), NotText),
      Window(1, HM(10, 0), HM(11, 0)),
      Window(-2, HM(9, 0), HM(10, 0))>>

WindowLists == {WindowsA, WindowsB, <<>>}

SaveAvailability ==
    \E user \in {2, 3, 4}, windows \in WindowLists : SetAvailability(user, windows)

LoadAvailability ==
    \E user \in {2, 4} : QueryAvailability(user)

HeldBooking ==
    /\ nextId <= MaxHeld
    /\ Create(4, Body(Undef, <<T1>>, 2))

SlotsLookup == QuerySlots(4, 6, Undef, UndefText)

NextAvail == SaveAvailability \/ LoadAvailability \/ HeldBooking \/ SlotsLookup

SpecAvail == Init /\ [][NextAvail]_vars

(***************************************************************************)
(* Properties of availability (SpecAvail).                                 *)
(***************************************************************************)
\* the windows of a list with day_of_week in 0..6 and a non-empty start_time
\* and end_time
ValidWindows(windows) ==
    SelectSeq(windows, LAMBDA w :
        /\ w.day_of_week \in 0..6
        /\ w.start_time \notin {EmptyTime, NotText}
        /\ w.end_time \notin {EmptyTime, NotText})

\* how often each element occurs in a sequence
BagOfSeq(s) == [x \in SeqRange(s) |-> Cardinality({i \in 1..Len(s) : s[i] = x})]

\* C25: after setAvailability(p, W), getAvailability(p) returns exactly the
\* valid windows of W and none of the earlier ones; the invalid windows do
\* not fail the call; a second setAvailability(p, W) leaves the store as the
\* first left it.
ThmC25 ==
    \A p \in listCounselors, windows \in WindowLists :
        LET once == PutAvailability(DB, p, windows)
            twice == PutAvailability(once.db, p, windows)
            got == GetAvailability(once.db, p)
        IN  /\ once.code = 200 /\ got.code = 200 /\ twice.code = 200
            /\ BagOfSeq(got.body) = BagOfSeq(ValidWindows(windows))
            /\ twice.db = once.db

\* counselor 2, whose Monday 09:00 slot was on offer before, saved WindowsB
\* and reads back its two valid windows, ordered by day
WitC25 ==
    /\ resp = Respond("availability", 2, 200)
    /\ avail[2] = <<Window(2, HM(9, 0), HM(9, 30)), Window(1, HM(10, 0), HM(11, 0))>>
    /\ availOut = <<Window(1, HM(10, 0), HM(11, 0)), Window(2, HM(9, 0), HM(9, 30))>>
    /\ \E i \in 1..Len(slotsOut) : slotsOut[i].counselor_id = 2 /\ slotsOut[i].start = T1

\* window w offers the slot on its date
Offers(w, slot) ==
    /\ w.day_of_week = getDay(slot.start.date)
    /\ timeToMinutes(w.start_time) <= timeToMinutes(slot.start.time)
    /\ timeToMinutes(slot.start.time) + SLOT_MINUTES <= timeToMinutes(w.end_time)

\* C26: two setAvailability requests of one provider are processed one after
\* the other: both are answered 200 and the stored windows are the valid
\* windows of the second; in every state each provider's stored windows are
\* the valid windows of one list, and the slots a query returned for a
\* provider are all offered by the windows of one list.
ThmC26 ==
    /\ \A p \in listCounselors :
          /\ avail[p] \in {ValidWindows(windows) : windows \in WindowLists}
          /\ \E windows \in WindowLists :
                \A i \in 1..Len(slotsOut) :
                    slotsOut[i].counselor_id = p =>
                        \E k \in 1..Len(ValidWindows(windows)) :
                            Offers(ValidWindows(windows)[k], slotsOut[i])
    /\ \A p \in listCounselors, w1 \in WindowLists, w2 \in WindowLists :
          LET first == PutAvailability(DB, p, w1)
              second == PutAvailability(first.db, p, w2)
          IN  /\ first.code = 200 /\ second.code = 200
              /\ second.db.avail[p] = ValidWindows(w2)

\* counselor 2 saved WindowsA, read it back, and then saved WindowsB: the
\* slots query after the second save sees Monday 10:00 and 10:30 only
WitC26 ==
    /\ resp = Respond("slots", 4, 200)
    /\ availOut = ValidWindows(WindowsA)
    /\ avail[2] = ValidWindows(WindowsB)
    /\ avail[3] = <<>>
    /\ Len(slotsOut) = 2
    /\ slotsOut[1].start = At(6, HM(10, 0), 0) /\ slotsOut[2].start = At(6, HM(10, 30), 0)

\* C30: a PUT /api/availability leaves the windows of every provider other
\* than the caller, the appointments and the notifications as they were, and
\* no other request changes any provider's windows.
ThmC30 ==
    [][ /\ resp'.op = "put" =>
              /\ \A q \in listCounselors \ {resp'.caller} : avail'[q] = avail[q]
              /\ appts' = appts /\ notifs' = notifs /\ nextId' = nextId
        /\ resp'.op # "put" => avail' = avail ]_vars

\* counselor 2 replaced its windows while the doctor keeps Monday 09:00-10:00
\* and appointment 1 with counselor 2 stays scheduled for Monday 09:00, a
\* time none of counselor 2's windows covers any more
WitC30 ==
    /\ resp = Respond("put", 2, 200)
    /\ avail[2] = ValidWindows(WindowsB)
    /\ avail[3] = ValidWindows(WindowsA)
    /\ 1 \in DOMAIN appts
    /\ appts[1].assigned_to = 2 /\ appts[1].status = "scheduled" /\ appts[1].scheduled_at = T1
    /\ notifs # <<>>

=============================================================================
